---------------------------- MODULE Spec2Model ----------------------------
(***************************************************************************)
(* A model of gdrive_videoloader.py: the identifier extractor, the         *)
(* playback-info parser, the filename sanitizer, the resumable downloader  *)
(* and main.                                                               *)
(*                                                                         *)
(* A Python str is a sequence of one-character strings; None is NoneVal.   *)
(* The output file is a record: whether it exists, and its bytes.          *)
(***************************************************************************)
EXTENDS Integers, Sequences, FiniteSets, TLC

VARIABLES
    sanPc, sanIn, sanOut,                 \* sanitize_filename: call / return
    exPc, exIn, exOut,                    \* extract_video_id: call / return
    gvPc, page_content, contentList, gvIdx, video, title, \* get_video_url
    mPc, mInput, mOutputFile, mPage, mVideo, mTitle, mFilename, mOut, \* main
    file,                                 \* the output file on disk
    pc, chunk_size, downloaded_size, file_mode, rangeFrom, status, body,
    total_size, sent, buf, fpos, msg,     \* download_file, per process
    fileAtStart, runs, overlapped, honoured \* history of the download runs

sanVars == <<sanPc, sanIn, sanOut>>
exVars == <<exPc, exIn, exOut>>
gvVars == <<gvPc, page_content, contentList, gvIdx, video, title>>
mVars == <<mPc, mInput, mOutputFile, mPage, mVideo, mTitle, mFilename, mOut>>
dlVars == <<file, pc, chunk_size, downloaded_size, file_mode, rangeFrom,
            status, body, total_size, sent, buf, fpos, msg, fileAtStart, runs,
            overlapped, honoured>>
vars == <<sanVars, exVars, gvVars, mVars, dlVars>>

\* None: a sequence no string equals (a string holds single characters).
NoneVal == << "None" >>

-----------------------------------------------------------------------------
(* Strings *)

\* The printable ASCII characters in code-point order: AsciiPrintable[i] has
\* code point i + 31.  (Code 96, the grave accent, cannot be written in a
\* string of this language; its place is held by a name no character equals.)
AsciiPrintable ==
    << " ", "!", "\"", "#", "$", "%", "&", "'", "(", ")", "*", "+", ",", "-",
       ".", "/", "0", "1", "2", "3", "4", "5", "6", "7", "8", "9", ":", ";",
       "<", "=", ">", "?", "@", "A", "B", "C", "D", "E", "F", "G", "H", "I",
       "J", "K", "L", "M", "N", "O", "P", "Q", "R", "S", "T", "U", "V", "W",
       "X", "Y", "Z", "[", "\\", "]", "^", "_", "GRAVE", "a", "b", "c", "d", "e",
       "f", "g", "h", "i", "j", "k", "l", "m", "n", "o", "p", "q", "r", "s",
       "t", "u", "v", "w", "x", "y", "z", "{", "|", "}", "~" >>

\* ord(c), for the characters of the model: printable ASCII, tab and newline.
Ord(c) ==
    IF c = "\t" THEN 9
    ELSE IF c = "\n" THEN 10
    ELSE 31 + CHOOSE i \in 1..Len(AsciiPrintable) : AsciiPrintable[i] = c

\* chr(n), for the same characters.
Chr(n) ==
    IF n = 9 THEN "\t"
    ELSE IF n = 10 THEN "\n"
    ELSE AsciiPrintable[n - 31]

IsChrCode(n) == n = 9 \/ n = 10 \/ (n >= 32 /\ n <= 126 /\ n # 96)

\* The concatenation of a sequence of strings.
RECURSIVE Concat(_)
Concat(ss) == IF ss = <<>> THEN <<>> ELSE Head(ss) \o Concat(Tail(ss))

\* s.find(c) and s.rfind(c), 1-based; 0 when c does not occur.
Find(s, c) ==
    IF \E i \in 1..Len(s) : s[i] = c
    THEN CHOOSE i \in 1..Len(s) : s[i] = c /\ \A j \in 1..(i-1) : s[j] # c
    ELSE 0

RFind(s, c) ==
    IF \E i \in 1..Len(s) : s[i] = c
    THEN CHOOSE i \in 1..Len(s) : s[i] = c /\ \A j \in (i+1)..Len(s) : s[j] # c
    ELSE 0

\* s.startswith(p)
StartsWith(s, p) == Len(s) >= Len(p) /\ SubSeq(s, 1, Len(p)) = p

\* p in s
Contains(s, p) ==
    \E i \in 1..(Len(s) - Len(p) + 1) : SubSeq(s, i, i + Len(p) - 1) = p

\* s.split(c) for a one-character separator: the list of the pieces.
RECURSIVE Split(_, _)
Split(s, c) ==
    LET i == Find(s, c)
    IN  IF i = 0 THEN << s >>
        ELSE << SubSeq(s, 1, i - 1) >> \o Split(SubSeq(s, i + 1, Len(s)), c)

\* s.replace(a, b) for one-character a and b.
Replace(s, a, b) == [i \in 1..Len(s) |-> IF s[i] = a THEN b ELSE s[i]]

\* str.isspace() of a character of the model.
IsSpace(c) == c \in {" ", "\t", "\n"}

\* s.strip()
RECURSIVE LStrip(_)
LStrip(s) == IF s # <<>> /\ IsSpace(Head(s)) THEN LStrip(Tail(s)) ELSE s

RECURSIVE RStrip(_)
RStrip(s) ==
    IF s # <<>> /\ IsSpace(s[Len(s)]) THEN RStrip(SubSeq(s, 1, Len(s) - 1))
    ELSE s

Strip(s) == RStrip(LStrip(s))

HexDigits == <<"0", "1", "2", "3", "4", "5", "6", "7", "8", "9",
               "A", "B", "C", "D", "E", "F">>

IsHex(c) ==
    \/ \E i \in 1..Len(HexDigits) : HexDigits[i] = c
    \/ c \in {"a", "b", "c", "d", "e", "f"}

HexVal(c) ==
    IF c \in {"a", "b", "c", "d", "e", "f"} THEN Ord(c) - 87
    ELSE (CHOOSE i \in 1..Len(HexDigits) : HexDigits[i] = c) - 1

\* urllib.parse.unquote: every %XY with two hex digits becomes the character
\* with that code; a '%' not followed by two hex digits is kept as it is.
\* (The model's inputs only escape characters of the model.)
RECURSIVE unquote(_)
unquote(s) ==
    IF s = <<>> THEN <<>>
    ELSE IF /\ s[1] = "%"
            /\ Len(s) >= 3
            /\ IsHex(s[2])
            /\ IsHex(s[3])
            /\ IsChrCode(16 * HexVal(s[2]) + HexVal(s[3]))
         THEN << Chr(16 * HexVal(s[2]) + HexVal(s[3])) >>
                  \o unquote(SubSeq(s, 4, Len(s)))
         ELSE << s[1] >> \o unquote(Tail(s))

\* All strings over alphabet A of length at most n.
StringsUpTo(A, n) == UNION {[1..k -> A] : k \in 0..n}

-----------------------------------------------------------------------------
(* sanitize_filename *)

ControlLimit == 32

InvalidChars == {"<", ">", ":", "\"", "/", "\\", "|", "?", "*"}

RemoveInvalidChars_NoPipe(s) ==
    SelectSeq(s, LAMBDA c : c \notin (InvalidChars \ {"|"}))

\* re.sub(r'[<>:"/\\|?*]', '', filename)
RemoveInvalidChars(s) == SelectSeq(s, LAMBDA c : c \notin InvalidChars)

\* "".join(char for char in filename if ord(char) >= 32)
RemoveControlChars(s) == SelectSeq(s, LAMBDA c : Ord(c) >= ControlLimit)

\* os.path.splitext(p)[1] (genericpath._splitext with sep '/', extsep '.'):
\* the text from the last dot of the last path segment on, unless only dots
\* come before that dot in the segment.
splitext_ext(p) ==
    LET sepIndex == RFind(p, "/")
        dotIndex == RFind(p, ".")
    IN  IF /\ dotIndex > sepIndex
           /\ \E k \in (sepIndex + 1)..(dotIndex - 1) : p[k] # "."
        THEN SubSeq(p, dotIndex, Len(p))
        ELSE <<>>

DefaultExt == <<".", "m", "p", "4">>

sanitize_filename(filename) ==
    LET s1 == Replace(filename, "+", " ")
        s2 == RemoveInvalidChars(s1)
        s3 == RemoveControlChars(s2)
        s4 == Strip(s3)
    IN  IF splitext_ext(s4) = <<>> THEN s4 \o DefaultExt ELSE s4


-----------------------------------------------------------------------------
(* extract_video_id *)

MinIdLen == 20

Letters ==
    {"A", "B", "C", "D", "E", "F", "G", "H", "I", "J", "K", "L", "M", "N", "O",
     "P", "Q", "R", "S", "T", "U", "V", "W", "X", "Y", "Z", "a", "b", "c", "d",
     "e", "f", "g", "h", "i", "j", "k", "l", "m", "n", "o", "p", "q", "r", "s",
     "t", "u", "v", "w", "x", "y", "z"}

Digits == {"0", "1", "2", "3", "4", "5", "6", "7", "8", "9"}

\* The character class [\w-] on ASCII.
IsIdChar(c) == c \in Letters \cup Digits \cup {"_", "-"}

\* re.match(r'^[\w-]{20,}$', s)
LooksLikeId(s) == Len(s) >= MinIdLen /\ \A i \in 1..Len(s) : IsIdChar(s[i])

\* The characters a URL scheme may hold (urllib.parse.scheme_chars).
IsSchemeChar(c) == c \in Letters \cup Digits \cup {"+", "-", "."}

\* The index of the first of '/', '?', '#' in s from index `from` on, or
\* Len(s) + 1 (urllib.parse._splitnetloc).
NetlocEnd(s, from) ==
    LET stops == {i \in from..Len(s) : s[i] \in {"/", "?", "#"}}
    IN  IF stops = {} THEN Len(s) + 1
        ELSE CHOOSE i \in stops : \A j \in stops : i <= j

\* urllib.parse.urlsplit, for inputs without whitespace, control characters
\* and ';': [err, netloc, path, query].  err is TRUE where urlsplit raises
\* ValueError("Invalid IPv6 URL"): the netloc holds one of '[' and ']'
\* without the other.  (The model's inputs hold no ']'.)
urlparse(url) ==
    LET i == Find(url, ":")
        hasScheme ==
            /\ i > 1
            /\ url[1] \in Letters
            /\ \A k \in 1..(i - 1) : IsSchemeChar(url[k])
        u1 == IF hasScheme THEN SubSeq(url, i + 1, Len(url)) ELSE url
        hasNetloc == Len(u1) >= 2 /\ SubSeq(u1, 1, 2) = <<"/", "/">>
        e == NetlocEnd(u1, 3)
        netloc == IF hasNetloc THEN SubSeq(u1, 3, e - 1) ELSE <<>>
        u2 == IF hasNetloc THEN SubSeq(u1, e, Len(u1)) ELSE u1
        h == Find(u2, "#")
        u3 == IF h > 0 THEN SubSeq(u2, 1, h - 1) ELSE u2
        q == Find(u3, "?")
        hasOpen == \E k \in 1..Len(netloc) : netloc[k] = "["
        hasClose == \E k \in 1..Len(netloc) : netloc[k] = "]"
    IN  [err |-> hasOpen # hasClose,
         netloc |-> netloc,
         path |-> IF q > 0 THEN SubSeq(u3, 1, q - 1) ELSE u3,
         query |-> IF q > 0 THEN SubSeq(u3, q + 1, Len(u3)) ELSE <<>>]

\* One decoded name or value of parse_qsl: '+' is a space, then unquote.
QsDecode(s) == unquote(Replace(s, "+", " "))

\* urllib.parse.parse_qsl(qs): the (name, value) pairs of the fields that have
\* an '=' and a non-empty value, in order.
parse_qsl(qs) ==
    LET fields == IF qs = <<>> THEN <<>> ELSE Split(qs, "&")
        good == SelectSeq(fields,
                    LAMBDA f : Find(f, "=") > 0 /\ Find(f, "=") < Len(f))
    IN  [k \in 1..Len(good) |->
            LET f == good[k]
                eq == Find(f, "=")
            IN  << QsDecode(SubSeq(f, 1, eq - 1)),
                   QsDecode(SubSeq(f, eq + 1, Len(f))) >>]

IdName == <<"i", "d">>

\* "id" in query, for query = parse_qs(parsed.query)
HasIdParam(qs) == \E k \in 1..Len(parse_qsl(qs)) : parse_qsl(qs)[k][1] = IdName

\* query["id"][0]
FirstIdParam(qs) ==
    LET pairs == parse_qsl(qs)
        k == CHOOSE k \in 1..Len(pairs) :
                /\ pairs[k][1] = IdName
                /\ \A j \in 1..(k - 1) : pairs[j][1] # IdName
    IN  pairs[k][2]

\* The places where re.search(r'/d/([\w-]+)', path) can match.
PathIdStarts(path) ==
    {i \in 1..(Len(path) - 3) :
        /\ SubSeq(path, i, i + 2) = <<"/", "d", "/">>
        /\ IsIdChar(path[i + 3])}

\* match.group(1) of the leftmost match: the longest run of [\w-] after it.
PathId(path) ==
    LET i == CHOOSE i \in PathIdStarts(path) :
                \A j \in PathIdStarts(path) : i <= j
        last == CHOOSE e \in (i + 3)..Len(path) :
                    /\ \A k \in (i + 3)..e : IsIdChar(path[k])
                    /\ (e = Len(path) \/ ~IsIdChar(path[e + 1]))
    IN  SubSeq(path, i + 3, last)

Returned(v) == [kind |-> "return", value |-> v]

Raised(e) == [kind |-> "raise", value |-> e]

ValueError == <<"ValueError">>

extract_video_id(link_or_id) ==
    IF LooksLikeId(link_or_id) THEN Returned(link_or_id)
    ELSE LET parsed == urlparse(link_or_id)
         IN  IF parsed.err THEN Raised(ValueError)
             ELSE IF PathIdStarts(parsed.path) # {}
                  THEN Returned(PathId(parsed.path))
             ELSE IF HasIdParam(parsed.query)
                  THEN Returned(FirstIdParam(parsed.query))
             ELSE Returned(link_or_id)


-----------------------------------------------------------------------------
(* get_video_url *)

TitlePrefix == <<"t", "i", "t", "l", "e", "=">>

VideoMarker ==
    <<"v", "i", "d", "e", "o", "p", "l", "a", "y", "b", "a", "c", "k">>

\* Python truth of an optional string: None and '' are false.
Truthy(x) == x # NoneVal /\ x # <<>>

\* s.split(c)[-1]
LastField(s, c) == SubSeq(s, RFind(s, c) + 1, Len(s))

\* unquote(content.split('=')[-1])
TitleOf(content) == unquote(LastField(content, "="))

\* unquote(content).split("|")[-1]
VideoOf(content) == LastField(unquote(content), "|")

IsTitleSegment(content) == StartsWith(content, TitlePrefix)

IsVideoSegment(content) == Contains(content, VideoMarker)

ScanStep_Overwrite(st, content) ==
    IF IsTitleSegment(content)
    THEN [st EXCEPT !.title = TitleOf(content)]
    ELSE IF IsVideoSegment(content)
    THEN [st EXCEPT !.video = VideoOf(content)]
    ELSE st

\* One pass of the loop body's if / elif on the pair (video, title).
ScanStep(st, content) ==
    IF IsTitleSegment(content) /\ ~Truthy(st.title)
    THEN [st EXCEPT !.title = TitleOf(content)]
    ELSE IF IsVideoSegment(content) /\ ~Truthy(st.video)
    THEN [st EXCEPT !.video = VideoOf(content)]
    ELSE st

\* if video and title: break
BothFound(st) == Truthy(st.video) /\ Truthy(st.title)

\* The loop from segment i on, started with st: the pair it ends with.
RECURSIVE ScanFrom(_, _, _)
ScanFrom(list, i, st) ==
    IF i > Len(list) THEN st
    ELSE LET nxt == ScanStep(st, list[i])
         IN  IF BothFound(nxt) THEN nxt ELSE ScanFrom(list, i + 1, nxt)

\* get_video_url(page_content, verbose): the pair (video, title).
get_video_url(page) ==
    ScanFrom(Split(page, "&"), 1, [video |-> NoneVal, title |-> NoneVal])

-----------------------------------------------------------------------------
(* Bounds and input sets *)

MaxNameLen == 4
MaxUrlParts == 4

SanAlphabet == {"a", ".", "+", " ", "|", "/", "\t"}

SanInputs == StringsUpTo(SanAlphabet, MaxNameLen)

\* One character short of an identifier.
ShortId == [i \in 1..(MinIdLen - 1) |-> IF i % 2 = 0 THEN "_" ELSE "x"]

ExPieces ==
    { <<"h", "t", "t", "p", "s", ":", "/", "/", "h">>,
      <<"/", "d", "/">>,
      <<"A">>,
      <<"/">>,
      <<"?", "i", "d", "=">>,
      <<"&">>,
      <<".">>,
      <<"[">>,
      ShortId }

ExInputs == {Concat(ps) : ps \in StringsUpTo(ExPieces, MaxUrlParts)}

-----------------------------------------------------------------------------
(* The parts of the state a specification leaves alone *)

SanOff == sanPc = "off" /\ sanIn = <<>> /\ sanOut = <<>>

ExOff == exPc = "off" /\ exIn = <<>> /\ exOut = Returned(<<>>)

-----------------------------------------------------------------------------
(* sanitize_filename, called on one name *)

SanInit == sanPc = "call" /\ sanIn \in SanInputs /\ sanOut = <<>>

SanitizeCall ==
    /\ sanPc = "call"
    /\ sanOut' = sanitize_filename(sanIn)
    /\ sanPc' = "ret"
    /\ UNCHANGED sanIn

(* extract_video_id, called on one input *)

ExInit == exPc = "call" /\ exIn \in ExInputs /\ exOut = Returned(<<>>)

ExtractCall ==
    /\ exPc = "call"
    /\ exOut' = extract_video_id(exIn)
    /\ exPc' = "ret"
    /\ UNCHANGED exIn


-----------------------------------------------------------------------------
(* get_video_url, run on one response body *)

MaxSegs == 3

SegA == TitlePrefix \o <<"a">>
SegEmptyTitle == TitlePrefix
SegTitleEq == TitlePrefix \o <<"a", "=", "b">>
SegTitleVideo == TitlePrefix \o VideoMarker \o <<"|", "c">>
SegTitleEnc == TitlePrefix \o <<"M", "y", "%", "2", "B", "V", "i", "d", "e", "o">>
SegVideo ==
    VideoMarker \o <<"|", "h", "t", "t", "p", "s", ":", "/", "/", "c", "d",
                     "n", "/", "x", ".", "m", "p", "4">>
SegVideoEnc == VideoMarker \o <<"%", "7", "C", "u">>
SegEmptyVideo == VideoMarker \o <<"|">>
SegOther == <<"f", "o", "o", "=", "b", "a", "r">>

SegPool ==
    {SegA, SegEmptyTitle, SegTitleEq, SegTitleVideo, SegTitleEnc, SegVideo,
     SegVideoEnc, SegEmptyVideo, SegOther}

\* "&".join(segs)
RECURSIVE Join(_)
Join(segs) ==
    IF segs = <<>> THEN <<>>
    ELSE IF Len(segs) = 1 THEN segs[1]
    ELSE segs[1] \o <<"&">> \o Join(Tail(segs))

Pages == {Join(segs) : segs \in StringsUpTo(SegPool, MaxSegs)}

GvOff ==
    /\ gvPc = "off"
    /\ page_content = <<>>
    /\ contentList = <<>>
    /\ gvIdx = 0
    /\ video = NoneVal
    /\ title = NoneVal

GvInit ==
    /\ gvPc = "split"
    /\ page_content \in Pages
    /\ contentList = <<>>
    /\ gvIdx = 0
    /\ video = NoneVal
    /\ title = NoneVal

\* contentList = page_content.split("&"); video, title = None, None
GvSplit ==
    /\ gvPc = "split"
    /\ contentList' = Split(page_content, "&")
    /\ gvIdx' = 1
    /\ gvPc' = "loop"
    /\ UNCHANGED <<page_content, video, title>>

\* One iteration of `for content in contentList`, with its break.
GvIterate ==
    /\ gvPc = "loop"
    /\ gvIdx <= Len(contentList)
    /\ LET nxt == ScanStep([video |-> video, title |-> title],
                           contentList[gvIdx])
       IN  /\ video' = nxt.video
           /\ title' = nxt.title
           /\ gvPc' = IF BothFound(nxt) THEN "ret" ELSE "loop"
           /\ gvIdx' = IF BothFound(nxt) THEN gvIdx ELSE gvIdx + 1
    /\ UNCHANGED <<page_content, contentList>>

\* The list is exhausted: return video, title
GvReturn ==
    /\ gvPc = "loop"
    /\ gvIdx > Len(contentList)
    /\ gvPc' = "ret"
    /\ UNCHANGED <<page_content, contentList, gvIdx, video, title>>

-----------------------------------------------------------------------------
(* download_file *)

ResLen == 3
MaxChunk == 2
MaxRuns == 3

Procs == {"p1", "p2"}

\* The resource the media URL serves: ResLen distinct bytes.
Resource == [i \in 1..ResLen |-> i]

\* The body of an error response; a hole of a sparse file reads as zeros too.
ErrorBody == <<0>>

ErrorStatuses == {403, 500}

AbsentFile == [exists |-> FALSE, data |-> <<>>]

NoRange == -1

NoMsg == [kind |-> "none", code |-> 0]

Min(a, b) == IF a < b THEN a ELSE b

Max(a, b) == IF a > b THEN a ELSE b

IsPrefix(s, t) == Len(s) <= Len(t) /\ s = SubSeq(t, 1, Len(s))

FileModeFor_AlwaysWb(exists) == "wb"

\* file_mode: 'ab' when the file exists, 'wb' otherwise
FileModeFor(exists) == IF exists THEN "ab" ELSE "wb"

RangeStart_Zero(size) == 0

RangeStart_OffByOne(size) == size + 1

\* headers['Range'] = f"bytes={downloaded_size}-"
RangeStart(size) == size

StatusOk_Any(s) == TRUE

\* response.status_code in (200, 206)
StatusOk(s) == s \in {200, 206}

\* What the server may answer to a GET whose Range header starts at r
\* (NoRange: no header).  honours is FALSE where the server ignores the header
\* and sends the whole resource.
Responses(r) ==
    {[status |-> e, body |-> ErrorBody, honours |-> TRUE] : e \in ErrorStatuses}
    \cup
    (IF r = NoRange
     THEN {[status |-> 200, body |-> Resource, honours |-> TRUE]}
     ELSE IF r = 0
     THEN {[status |-> c, body |-> Resource, honours |-> TRUE] : c \in {200, 206}}
     ELSE IF r < Len(Resource)
     THEN {[status |-> 206, body |-> SubSeq(Resource, r + 1, Len(Resource)),
            honours |-> TRUE],
           [status |-> 200, body |-> Resource, honours |-> FALSE]}
     ELSE {[status |-> 416, body |-> ErrorBody, honours |-> TRUE],
           [status |-> 200, body |-> Resource, honours |-> FALSE]})

\* The file's bytes after a write of `bytes` through a descriptor opened in
\* `mode` whose position is pos: 'ab' writes at the end of the file, 'wb' at
\* the position, over what is there, a gap before it reading as zeros.
WriteAt(data, mode, pos, bytes) ==
    IF mode = "ab" THEN data \o bytes
    ELSE [i \in 1..Max(Len(data), pos + Len(bytes)) |->
            IF i > pos /\ i <= pos + Len(bytes) THEN bytes[i - pos]
            ELSE IF i <= Len(data) THEN data[i]
            ELSE 0]

Active(p) == pc[p] \in {"get", "open", "loop"}

\* No download_file has been entered yet.
DlIdle ==
    /\ pc = [p \in Procs |-> "idle"]
    /\ chunk_size = [p \in Procs |-> 1]
    /\ downloaded_size = [p \in Procs |-> 0]
    /\ file_mode = [p \in Procs |-> "wb"]
    /\ rangeFrom = [p \in Procs |-> NoRange]
    /\ status = [p \in Procs |-> 0]
    /\ body = [p \in Procs |-> <<>>]
    /\ total_size = [p \in Procs |-> 0]
    /\ sent = [p \in Procs |-> 0]
    /\ buf = [p \in Procs |-> <<>>]
    /\ fpos = [p \in Procs |-> 0]
    /\ msg = [p \in Procs |-> NoMsg]
    /\ fileAtStart = [p \in Procs |-> AbsentFile]
    /\ runs = 0
    /\ overlapped = FALSE
    /\ honoured = TRUE

\* download_file is entered: the file is looked at (os.path.exists,
\* os.path.getsize) and the Range header and the open mode are chosen.
Stat(p) ==
    /\ pc[p] \in {"idle", "done", "killed"}
    /\ runs < MaxRuns
    /\ \E c \in 1..MaxChunk : chunk_size' = [chunk_size EXCEPT ![p] = c]
    /\ downloaded_size' =
          [downloaded_size EXCEPT ![p] = IF file.exists THEN Len(file.data) ELSE 0]
    /\ rangeFrom' =
          [rangeFrom EXCEPT ![p] = IF file.exists
                                   THEN RangeStart(Len(file.data))
                                   ELSE NoRange]
    /\ file_mode' = [file_mode EXCEPT ![p] = FileModeFor(file.exists)]
    /\ status' = [status EXCEPT ![p] = 0]
    /\ body' = [body EXCEPT ![p] = <<>>]
    /\ total_size' = [total_size EXCEPT ![p] = 0]
    /\ sent' = [sent EXCEPT ![p] = 0]
    /\ buf' = [buf EXCEPT ![p] = <<>>]
    /\ fpos' = [fpos EXCEPT ![p] = 0]
    /\ msg' = [msg EXCEPT ![p] = NoMsg]
    /\ fileAtStart' = [fileAtStart EXCEPT ![p] = file]
    /\ runs' = runs + 1
    /\ overlapped' = (overlapped \/ \E q \in Procs \ {p} : Active(q))
    /\ pc' = [pc EXCEPT ![p] = "get"]
    /\ UNCHANGED <<file, honoured>>

\* requests.get(...) answers; the status is checked, and the error is printed
\* for a status other than 200 and 206.  The response's content-length header
\* is the length of its body.
Get(p) ==
    /\ pc[p] = "get"
    /\ \E resp \in Responses(rangeFrom[p]) :
          /\ status' = [status EXCEPT ![p] = resp.status]
          /\ body' = [body EXCEPT ![p] = resp.body]
          /\ honoured' = (honoured /\ resp.honours)
          /\ IF StatusOk(resp.status)
             THEN /\ total_size' =
                        [total_size EXCEPT ![p] = Len(resp.body) + downloaded_size[p]]
                  /\ pc' = [pc EXCEPT ![p] = "open"]
                  /\ msg' = msg
             ELSE /\ msg' = [msg EXCEPT ![p] = [kind |-> "error", code |-> resp.status]]
                  /\ pc' = [pc EXCEPT ![p] = "done"]
                  /\ total_size' = total_size
    /\ UNCHANGED <<file, chunk_size, downloaded_size, file_mode, rangeFrom,
                   sent, buf, fpos, fileAtStart, runs, overlapped>>

\* open(filename, file_mode): 'wb' creates or empties the file, 'ab' creates
\* it when it is not there.
Open(p) ==
    /\ pc[p] = "open"
    /\ file' = [exists |-> TRUE,
                data |-> IF file_mode[p] = "wb" THEN <<>> ELSE file.data]
    /\ fpos' = [fpos EXCEPT ![p] = 0]
    /\ pc' = [pc EXCEPT ![p] = "loop"]
    /\ UNCHANGED <<chunk_size, downloaded_size, file_mode, rangeFrom, status,
                   body, total_size, sent, buf, msg, fileAtStart, runs,
                   overlapped, honoured>>

\* One chunk of response.iter_content(chunk_size) is read and handed to
\* file.write, which buffers it.
WriteChunk(p) ==
    /\ pc[p] = "loop"
    /\ sent[p] < Len(body[p])
    /\ \E n \in 1..Min(chunk_size[p], Len(body[p]) - sent[p]) :
          /\ buf' = [buf EXCEPT ![p] = @ \o SubSeq(body[p], sent[p] + 1, sent[p] + n)]
          /\ sent' = [sent EXCEPT ![p] = @ + n]
    /\ UNCHANGED <<file, pc, chunk_size, downloaded_size, file_mode, rangeFrom,
                   status, body, total_size, fpos, msg, fileAtStart, runs,
                   overlapped, honoured>>

\* The buffered writer hands its bytes to the operating system.
Flush(p) ==
    /\ pc[p] = "loop"
    /\ buf[p] # <<>>
    /\ file' = [file EXCEPT !.data = WriteAt(@, file_mode[p], fpos[p], buf[p])]
    /\ fpos' = [fpos EXCEPT ![p] = @ + Len(buf[p])]
    /\ buf' = [buf EXCEPT ![p] = <<>>]
    /\ UNCHANGED <<pc, chunk_size, downloaded_size, file_mode, rangeFrom,
                   status, body, total_size, sent, msg, fileAtStart, runs,
                   overlapped, honoured>>

\* The stream is exhausted: the with block closes the file, which flushes it,
\* and the success message is printed.
Close(p) ==
    /\ pc[p] = "loop"
    /\ sent[p] = Len(body[p])
    /\ file' = [file EXCEPT !.data = WriteAt(@, file_mode[p], fpos[p], buf[p])]
    /\ fpos' = [fpos EXCEPT ![p] = @ + Len(buf[p])]
    /\ buf' = [buf EXCEPT ![p] = <<>>]
    /\ msg' = [msg EXCEPT ![p] = [kind |-> "success", code |-> status[p]]]
    /\ pc' = [pc EXCEPT ![p] = "done"]
    /\ UNCHANGED <<chunk_size, downloaded_size, file_mode, rangeFrom, status,
                   body, total_size, sent, fileAtStart, runs, overlapped,
                   honoured>>

\* The process is terminated from outside: what it had buffered is lost.
Kill(p) ==
    /\ Active(p)
    /\ pc' = [pc EXCEPT ![p] = "killed"]
    /\ buf' = [buf EXCEPT ![p] = <<>>]
    /\ UNCHANGED <<file, chunk_size, downloaded_size, file_mode, rangeFrom,
                   status, body, total_size, sent, fpos, msg, fileAtStart,
                   runs, overlapped, honoured>>


-----------------------------------------------------------------------------
(* main *)

MainProc == "p1"

MainInputs ==
    { ShortId \o <<"A">>,
      <<"h", "t", "t", "p", "s", ":", "/", "/", "h", "/", "d", "/", "A", "/">>,
      <<"h", "t", "t", "p", "s", ":", "/", "/", "h", "[">> }

\* args.output: None without -o, or the string given.
OutputFiles == {NoneVal, <<>>, <<"o", "+", "u", "t">>}

\* Response bodies of the metadata endpoint: with both fields, without a
\* title, without a media URL, with neither, with an empty media URL.
MainPages ==
    { Join(<<SegTitleEnc, SegOther, SegVideo>>),
      Join(<<SegOther, SegVideo>>),
      Join(<<SegA, SegOther>>),
      SegOther,
      Join(<<SegEmptyVideo, SegA>>) }

\* What a run may find on disk: nothing, or what an earlier run left.
InitialFiles ==
    {AbsentFile} \cup
    {[exists |-> TRUE, data |-> SubSeq(Resource, 1, k)] : k \in 0..Len(Resource)}

MOff ==
    /\ mPc = "off"
    /\ mInput = <<>>
    /\ mOutputFile = NoneVal
    /\ mPage = NoneVal
    /\ mVideo = NoneVal
    /\ mTitle = NoneVal
    /\ mFilename = NoneVal
    /\ mOut = "none"

\* video_id = extract_video_id(video_input); a ValueError ends the run.
MainExtract ==
    /\ mPc = "start"
    /\ IF extract_video_id(mInput).kind = "raise"
       THEN mPc' = "crashed" /\ mOut' = "ValueError"
       ELSE mPc' = "fetch" /\ mOut' = mOut
    /\ UNCHANGED <<mInput, mOutputFile, mPage, mVideo, mTitle, mFilename>>
    /\ UNCHANGED dlVars

\* response = requests.get(drive_url) answers with some body, and
\* video, title = get_video_url(page_content, verbose)
MainFetch ==
    /\ mPc = "fetch"
    /\ \E page \in MainPages :
          /\ mPage' = page
          /\ mVideo' = get_video_url(page).video
          /\ mTitle' = get_video_url(page).title
    /\ mPc' = "sanitize"
    /\ UNCHANGED <<mInput, mOutputFile, mFilename, mOut>>
    /\ UNCHANGED dlVars

\* requests.get(drive_url) raises: the error ends the run.
MainFetchFail ==
    /\ mPc = "fetch"
    /\ mPc' = "crashed"
    /\ mOut' = "ConnectionError"
    /\ UNCHANGED <<mInput, mOutputFile, mPage, mVideo, mTitle, mFilename>>
    /\ UNCHANGED dlVars

\* filename = output_file if output_file else title
ChosenName(output_file, t) == IF Truthy(output_file) THEN output_file ELSE t

\* filename = sanitize_filename(filename): None has no replace(), and the
\* AttributeError ends the run.
MainSanitize ==
    /\ mPc = "sanitize"
    /\ IF ChosenName(mOutputFile, mTitle) = NoneVal
       THEN /\ mPc' = "crashed"
            /\ mOut' = "AttributeError"
            /\ mFilename' = mFilename
       ELSE /\ mPc' = "dispatch"
            /\ mOut' = mOut
            /\ mFilename' = sanitize_filename(ChosenName(mOutputFile, mTitle))
    /\ UNCHANGED <<mInput, mOutputFile, mPage, mVideo, mTitle>>
    /\ UNCHANGED dlVars

\* if video: download_file(...) is entered; else the message is printed.
MainDispatch ==
    /\ mPc = "dispatch"
    /\ IF Truthy(mVideo)
       THEN /\ Stat(MainProc)
            /\ mPc' = "download"
            /\ mOut' = mOut
       ELSE /\ mPc' = "done"
            /\ mOut' = "unable"
            /\ UNCHANGED dlVars
    /\ UNCHANGED <<mInput, mOutputFile, mPage, mVideo, mTitle, mFilename>>

\* A step of the download_file that main called.
MainDownload ==
    /\ mPc = "download"
    /\ \/ Get(MainProc)
       \/ Open(MainProc)
       \/ WriteChunk(MainProc)
       \/ Flush(MainProc)
       \/ Close(MainProc)
       \/ Kill(MainProc)
    /\ UNCHANGED mVars

\* download_file returned, and main with it.
MainReturn ==
    /\ mPc = "download"
    /\ pc[MainProc] = "done"
    /\ mPc' = "done"
    /\ UNCHANGED <<mInput, mOutputFile, mPage, mVideo, mTitle, mFilename, mOut>>
    /\ UNCHANGED dlVars

-----------------------------------------------------------------------------
(* The specifications *)

\* One run of main.
Init ==
    /\ mPc = "start"
    /\ mInput \in MainInputs
    /\ mOutputFile \in OutputFiles
    /\ mPage = NoneVal
    /\ mVideo = NoneVal
    /\ mTitle = NoneVal
    /\ mFilename = NoneVal
    /\ mOut = "none"
    /\ file \in InitialFiles
    /\ DlIdle
    /\ SanOff /\ ExOff /\ GvOff

Next ==
    \/ MainExtract /\ UNCHANGED <<sanVars, exVars, gvVars>>
    \/ MainFetch /\ UNCHANGED <<sanVars, exVars, gvVars>>
    \/ MainFetchFail /\ UNCHANGED <<sanVars, exVars, gvVars>>
    \/ MainSanitize /\ UNCHANGED <<sanVars, exVars, gvVars>>
    \/ MainDispatch /\ UNCHANGED <<sanVars, exVars, gvVars>>
    \/ MainDownload /\ UNCHANGED <<sanVars, exVars, gvVars>>
    \/ MainReturn /\ UNCHANGED <<sanVars, exVars, gvVars>>

Spec == Init /\ [][Next]_vars

\* sanitize_filename on every name of SanInputs.
InitSanitize ==
    /\ SanInit
    /\ ExOff /\ GvOff /\ MOff /\ file = AbsentFile /\ DlIdle

NextSanitize == SanitizeCall /\ UNCHANGED <<exVars, gvVars, mVars, dlVars>>

SpecSanitize == InitSanitize /\ [][NextSanitize]_vars

\* extract_video_id on every input of ExInputs.
InitExtract ==
    /\ ExInit
    /\ SanOff /\ GvOff /\ MOff /\ file = AbsentFile /\ DlIdle

NextExtract == ExtractCall /\ UNCHANGED <<sanVars, gvVars, mVars, dlVars>>

SpecExtract == InitExtract /\ [][NextExtract]_vars

\* get_video_url on every body of Pages.
InitParse ==
    /\ GvInit
    /\ SanOff /\ ExOff /\ MOff /\ file = AbsentFile /\ DlIdle

NextParse ==
    \/ GvSplit /\ UNCHANGED <<sanVars, exVars, mVars, dlVars>>
    \/ GvIterate /\ UNCHANGED <<sanVars, exVars, mVars, dlVars>>
    \/ GvReturn /\ UNCHANGED <<sanVars, exVars, mVars, dlVars>>

SpecParse == InitParse /\ [][NextParse]_vars

\* download_file run again and again by one process at a time, each run to
\* its end or until it is killed.
InitDownload ==
    /\ file = AbsentFile
    /\ DlIdle
    /\ SanOff /\ ExOff /\ GvOff /\ MOff

NextDownload ==
    \/ Stat(MainProc) /\ UNCHANGED <<sanVars, exVars, gvVars, mVars>>
    \/ Get(MainProc) /\ UNCHANGED <<sanVars, exVars, gvVars, mVars>>
    \/ Open(MainProc) /\ UNCHANGED <<sanVars, exVars, gvVars, mVars>>
    \/ WriteChunk(MainProc) /\ UNCHANGED <<sanVars, exVars, gvVars, mVars>>
    \/ Flush(MainProc) /\ UNCHANGED <<sanVars, exVars, gvVars, mVars>>
    \/ Close(MainProc) /\ UNCHANGED <<sanVars, exVars, gvVars, mVars>>
    \/ Kill(MainProc) /\ UNCHANGED <<sanVars, exVars, gvVars, mVars>>

SpecDownload == InitDownload /\ [][NextDownload]_vars

\* download_file run once by each of two processes on the same file, their
\* steps interleaved in any way (one after the other included).
NextConcurrent ==
    \E p \in Procs :
        \/ pc[p] = "idle" /\ Stat(p) /\ UNCHANGED <<sanVars, exVars, gvVars, mVars>>
        \/ Get(p) /\ UNCHANGED <<sanVars, exVars, gvVars, mVars>>
        \/ Open(p) /\ UNCHANGED <<sanVars, exVars, gvVars, mVars>>
        \/ WriteChunk(p) /\ UNCHANGED <<sanVars, exVars, gvVars, mVars>>
        \/ Flush(p) /\ UNCHANGED <<sanVars, exVars, gvVars, mVars>>
        \/ Close(p) /\ UNCHANGED <<sanVars, exVars, gvVars, mVars>>
        \/ Kill(p) /\ UNCHANGED <<sanVars, exVars, gvVars, mVars>>

SpecConcurrent == InitDownload /\ [][NextConcurrent]_vars

-----------------------------------------------------------------------------
(* Properties *)

\* The least element of a non-empty set of integers.
Least(S) == CHOOSE i \in S : \A j \in S : i <= j

\* The bytes a run asked for start here: the Range header's start, or 0.
RequestedFrom(p) == IF rangeFrom[p] = NoRange THEN 0 ELSE rangeFrom[p]

\* C1: a run that resumes a file of N bytes and is answered 206 with the
\* remaining bytes leaves the first N bytes of the file as they were and
\* appends only bytes of the body, in order; when it has completed the file is
\* the old file followed by the body, its size N + the content length (which
\* is the total the progress bar was given).
C1_ResumeAppends ==
    LET p == MainProc
        N == Len(fileAtStart[p].data)
    IN  (/\ pc[p] \in {"open", "loop", "done", "killed"}
         /\ fileAtStart[p].exists
         /\ status[p] = 206)
        => /\ Len(file.data) >= N
           /\ SubSeq(file.data, 1, N) = fileAtStart[p].data
           /\ IsPrefix(SubSeq(file.data, N + 1, Len(file.data)), body[p])
           /\ msg[p].kind = "success"
                => /\ file.data = fileAtStart[p].data \o body[p]
                   /\ Len(file.data) = N + Len(body[p])
                   /\ Len(file.data) = total_size[p]

\* A resumed run has completed: it started from a non-empty file and appended
\* a non-empty remainder.
C1_Witness ==
    /\ pc[MainProc] = "done"
    /\ msg[MainProc].kind = "success"
    /\ status[MainProc] = 206
    /\ Len(fileAtStart[MainProc].data) > 0
    /\ Len(body[MainProc]) > 0
    /\ Len(file.data) = Len(fileAtStart[MainProc].data) + Len(body[MainProc])

\* C2: when the media GET is answered with a status other than 200 and 206,
\* download_file returns with the file exactly as it found it (not created,
\* not emptied, not appended to) and having printed the error message with
\* that status code.
C2_ErrorStatusWritesNothing ==
    (pc[MainProc] = "done" /\ status[MainProc] \notin {200, 206})
        => /\ file = fileAtStart[MainProc]
           /\ msg[MainProc] = [kind |-> "error", code |-> status[MainProc]]

\* A run over an existing, non-empty file was refused by the server.
C2_Witness ==
    /\ pc[MainProc] = "done"
    /\ status[MainProc] = 403
    /\ file.exists
    /\ Len(file.data) > 0
    /\ msg[MainProc].kind = "error"

\* C3: every run of main in which get_video_url returned no media URL ends
\* having printed the 'Unable to retrieve the video URL' message, without
\* having entered download_file.
C3_ParseFailureReported ==
    (mPc \in {"done", "crashed"} /\ mPage # NoneVal /\ ~Truthy(mVideo))
        => (mOut = "unable" /\ pc[MainProc] = "idle" /\ runs = 0)

\* The indices of the title segments and of the video segments of a list.
TitleSegs(list) == {i \in 1..Len(list) : IsTitleSegment(list[i])}

VideoSegs(list) == {i \in 1..Len(list) : IsVideoSegment(list[i])}

\* C4 as stated: get_video_url returns the title of the first segment that
\* starts with 'title=' and the media URL of the first segment that contains
\* 'videoplayback', each whatever the other does, and a field that has been
\* set is never changed by a later segment.
C4_FirstMatchWins ==
    /\ [](gvPc = "ret" =>
            /\ title = IF TitleSegs(contentList) = {} THEN NoneVal
                       ELSE TitleOf(contentList[Least(TitleSegs(contentList))])
            /\ video = IF VideoSegs(contentList) = {} THEN NoneVal
                       ELSE VideoOf(contentList[Least(VideoSegs(contentList))]))
    /\ [][/\ title # NoneVal => title' = title
          /\ video # NoneVal => video' = video]_vars

\* The title segments with a non-empty title, the segments the scan can use
\* for the media URL (those containing 'videoplayback' that it does not use
\* for the title), and those of them with a non-empty URL.
FullTitleSegs(list) == {i \in TitleSegs(list) : TitleOf(list[i]) # <<>>}

UsedForTitle(list, i) ==
    i \in TitleSegs(list) /\ \A j \in FullTitleSegs(list) : j >= i

UrlSegs(list) == {i \in VideoSegs(list) : ~UsedForTitle(list, i)}

FullUrlSegs(list) == {i \in UrlSegs(list) : VideoOf(list[i]) # <<>>}

\* C4, amended: a segment sets at most one field, the title first.  The title
\* returned is that of the first 'title=' segment whose title is not empty
\* (the empty string if all are empty, None without a title segment); the
\* media URL is that of the first segment containing 'videoplayback' that was
\* not used for the title and whose URL is not empty (the empty string if all
\* are empty, None without such a segment); and a field that holds a
\* non-empty value is never changed by a later segment.
C4_FirstNonEmptyMatchWins ==
    /\ [](gvPc = "ret" =>
            /\ title = IF FullTitleSegs(contentList) # {}
                       THEN TitleOf(contentList[Least(FullTitleSegs(contentList))])
                       ELSE IF TitleSegs(contentList) # {} THEN <<>>
                       ELSE NoneVal
            /\ video = IF FullUrlSegs(contentList) # {}
                       THEN VideoOf(contentList[Least(FullUrlSegs(contentList))])
                       ELSE IF UrlSegs(contentList) # {} THEN <<>>
                       ELSE NoneVal)
    /\ [][/\ Truthy(title) => title' = title
          /\ Truthy(video) => video' = video]_vars

\* The scan has returned both fields from a list of which one segment both
\* starts with 'title=' and contains 'videoplayback', and another gave the
\* media URL.
C4_Witness ==
    /\ gvPc = "ret"
    /\ Truthy(title)
    /\ Truthy(video)
    /\ \E i \in TitleSegs(contentList) \cap VideoSegs(contentList) :
          UsedForTitle(contentList, i)
    /\ \E i \in TitleSegs(contentList) : TitleOf(contentList[i]) = <<>>

\* Everything after the first '=' of a segment, URL-decoded.
AfterFirstEq(content) ==
    unquote(SubSeq(content, Find(content, "=") + 1, Len(content)))

\* C5: the title recorded from the first segment that starts with 'title='
\* (the step that sets the title for the first time) is the URL-decoding of
\* everything after the first '=' of that segment.
C5_TitleAfterFirstEq ==
    [][(title = NoneVal /\ title' # NoneVal)
          => title' = AfterFirstEq(contentList[gvIdx])]_vars

\* s ends in a '.' followed by one or more characters, within its last path
\* segment.
EndsInExtension(s) ==
    \E i \in 1..(Len(s) - 1) : s[i] = "." /\ i > RFind(s, "/")

\* C6: every name sanitize_filename returns ends in a '.' followed by one or
\* more characters: '.mp4' is appended exactly when the cleaned name has no
\* such ending.
C6_ExtensionGuaranteed ==
    sanPc = "ret"
        => /\ EndsInExtension(sanOut)
           /\ \E core \in {SubSeq(sanOut, 1, k) : k \in 0..Len(sanOut)} :
                 \/ sanOut = core /\ EndsInExtension(core)
                 \/ sanOut = core \o DefaultExt /\ ~EndsInExtension(core)

\* The characters of the input that are to stay, in order: those that are
\* neither one of the nine nor a control character, '+' read as a space.
Kept(s) ==
    LET stay == SelectSeq(s, LAMBDA c : c \notin InvalidChars /\ Ord(c) >= 32)
    IN  [i \in 1..Len(stay) |-> IF stay[i] = "+" THEN " " ELSE stay[i]]

\* t is s without its leading and trailing whitespace.
IsTrimOf(t, s) ==
    \E i \in 1..(Len(s) + 1) : \E j \in 0..Len(s) :
        /\ t = SubSeq(s, i, j)
        /\ \A k \in 1..(i - 1) : IsSpace(s[k])
        /\ \A k \in (j + 1)..Len(s) : IsSpace(s[k])
        /\ t # <<>> => ~IsSpace(t[1]) /\ ~IsSpace(t[Len(t)])

\* C7: the name sanitize_filename returns holds none of the nine characters
\* < > : " / \ | ? *, and, before an appended '.mp4', it is exactly the other
\* characters of the input in their order ('+' as a space, control characters
\* dropped), trimmed of leading and trailing whitespace.
C7_StripsExactlyInvalid ==
    sanPc = "ret"
        => /\ \A i \in 1..Len(sanOut) : sanOut[i] \notin InvalidChars
           /\ \/ IsTrimOf(sanOut, Kept(sanIn))
              \/ /\ Len(sanOut) >= Len(DefaultExt)
                 /\ SubSeq(sanOut, Len(sanOut) - Len(DefaultExt) + 1, Len(sanOut))
                        = DefaultExt
                 /\ IsTrimOf(SubSeq(sanOut, 1, Len(sanOut) - Len(DefaultExt)),
                             Kept(sanIn))

\* A name with some of the nine characters and other characters around them
\* has been sanitized.
C7_Witness ==
    /\ sanPc = "ret"
    /\ \E i \in 1..Len(sanIn) : sanIn[i] = "|"
    /\ \E i \in 1..Len(sanIn) : sanIn[i] = "/"
    /\ \E i \in 1..Len(sanIn) : sanIn[i] = "."
    /\ \E i \in 1..Len(sanOut) : sanOut[i] = "a"

\* C8: extract_video_id never raises, and returns, in this order of
\* priority: the input itself when it is 20 or more characters of [\w-]; the
\* identifier after '/d/' in the URL's path; the first value of the 'id'
\* query parameter; the input itself.  (The path pattern and the query
\* parameter are read as the code's regular expression and parse_qs read
\* them.)
C8_PriorityOrderNoError ==
    exPc = "ret"
        => /\ exOut.kind = "return"
           /\ exOut.value =
                IF LooksLikeId(exIn) THEN exIn
                ELSE IF PathIdStarts(urlparse(exIn).path) # {}
                     THEN PathId(urlparse(exIn).path)
                ELSE IF HasIdParam(urlparse(exIn).query)
                     THEN FirstIdParam(urlparse(exIn).query)
                ELSE exIn

\* C9: against a server that honours byte ranges, over runs of download_file
\* one after the other, each run to its end or killed at any point: the file
\* is always a prefix of the resource, every run asks for the bytes from the
\* size the file had when the run started, and a file that equals the
\* resource is never changed again.
C9_ResumeCheckpoint ==
    /\ [](honoured =>
            /\ IsPrefix(file.data, Resource)
            /\ pc[MainProc] # "idle"
                  => RequestedFrom(MainProc) = Len(fileAtStart[MainProc].data))
    /\ [][(honoured' /\ file.exists /\ file.data = Resource)
             => file' = file]_vars

\* A third run found the complete file left by the runs before it, asked for
\* the bytes from its end and was answered 416.
C9_Witness ==
    /\ honoured
    /\ runs = 3
    /\ pc[MainProc] = "done"
    /\ status[MainProc] = 416
    /\ rangeFrom[MainProc] = Len(Resource)
    /\ file.data = Resource

\* C10: with two runs of download_file on the same file against a server
\* that honours byte ranges, a file that is not a prefix of the resource
\* arises only when the runs overlapped.
C10_CorruptionOnlyByOverlap ==
    (honoured /\ ~IsPrefix(file.data, Resource)) => overlapped

\* Two overlapping runs have left a file that is not a prefix of the
\* resource, the server having honoured every byte range.
C10_Witness ==
    /\ honoured
    /\ overlapped
    /\ ~IsPrefix(file.data, Resource)
    /\ \A p \in Procs : pc[p] = "done" /\ msg[p].kind = "success"

=============================================================================
